---- MODULE Spec2Model ----
(***************************************************************************)
(* Model of the note synchronisation engine of onyx                        *)
(* (usePocketBaseSync / PocketBaseProvider in src/components/ui/Sidebar.tsx,*)
(* the delete and create paths of App and Sidebar).                        *)
(*                                                                         *)
(* One step of the model is one resumption of JavaScript code: the code    *)
(* that runs from the completion of an awaited call up to the next await.  *)
(* The awaited call itself takes effect at the step that completes it.     *)
(***************************************************************************)
EXTENDS Integers, Sequences, FiniteSets, TLC

\* ------------------------------------------------------------------ bounds
MaxLocal == 4      \* local ids 1..MaxLocal can be handed out
MaxRemote == 4     \* remote ids 1..MaxRemote can be handed out
MaxFails == 1      \* how many awaited calls may fail
MaxEnvOps == 1     \* how many user / other-device operations may happen
MaxTicks == 1      \* how often the clock advances
MaxPasses == 2     \* how many syncList activations can exist at once

\* --------------------------------------------------------------- constants
SkewMs == 2000     \* remoteTime > localTime + 2000
T0 == 3000         \* the clock when the application starts (ms)
TickMs == 3000     \* one advance of the clock (ms)

None == 0          \* pb_id null / undefined
NaN == -1          \* Date.getTime() of an unparseable timestamp

LocalIds == 1..MaxLocal
RemoteIds == 1..MaxRemote
Passes == 1..MaxPasses

\* ----------------------------------------------------------------- content
\* A content string is `base` wrapped `wrap` times in the editor's JSON
\* block array [{"id":"main","type":"p","content": ... }].
Text(s) == [wrap |-> 0, base |-> s]
Wrap(c) == [wrap |-> c.wrap + 1, base |-> c.base]

\* JavaScript truthiness of a string: only '' is falsy.
Truthy(c) == ~(c.wrap = 0 /\ c.base = "")

\* Sidebar.tsx 516-525: unwrap the JSON wrapper if present.
UnwrapAnyJson(c) ==
    IF c.wrap > 0
    THEN [wrap |-> c.wrap - 1, base |-> c.base]
    ELSE IF c.base = "env" THEN [wrap |-> 0, base |-> ""] ELSE c

UnwrapContent(c) ==
    IF c.wrap > 0 /\ Truthy([wrap |-> c.wrap - 1, base |-> c.base])
    THEN [wrap |-> c.wrap - 1, base |-> c.base]
    ELSE c

\* `x || ''` on a string (or missing) value.
OrEmpty(c) == IF Truthy(c) THEN c ELSE Text("")

\* `remote.title || 'Untitled'`
OrUntitled(t) == IF t = "" THEN "Untitled" ELSE t

\* Sidebar.tsx 565-570: the conflict decision on two parsed timestamps.
\* A comparison with NaN is false.
ResolveNoTolerance(localTime, remoteTime) ==
    IF localTime # NaN /\ remoteTime # NaN /\ remoteTime > localTime
    THEN "pull" ELSE "noop"

ResolveInclusive(localTime, remoteTime) ==
    IF localTime # NaN /\ remoteTime # NaN /\ remoteTime >= localTime + SkewMs
    THEN "pull" ELSE "noop"

Resolve(localTime, remoteTime) ==
    IF localTime # NaN /\ remoteTime # NaN /\ remoteTime > localTime + SkewMs
    THEN "pull" ELSE "noop"

\* ------------------------------------------------------------------- state
VARIABLES
    local,        \* the local note store: id -> [title, content, updated_at, pb_id]
    nextId,       \* the next local id the store hands out (ids are never reused)
    remote,       \* the remote 'notes' collection: id -> [title, content, updated]
    nextRid,      \* the next remote id the server hands out
    now,          \* the clock (ms); both stores stamp their writes with it
    isConnected,  \* PocketBaseProvider state isConnected
    user,         \* PocketBaseProvider state user (TRUE: authenticated)
    active,       \* the effect of usePocketBaseSync is mounted
    subs,         \* the listeners held on the collection's change stream ('*')
    isSyncing,    \* isSyncingRef.current
    pass,         \* the activations of syncList: slot -> its locals and position
    rt,           \* realtime events delivered to the subscription, not yet handled
    fails,        \* awaited calls that have failed so far
    escaped,      \* the handlers out of which a failure of a call has propagated
    envOps,       \* user / other-device operations so far
    ended,        \* what the pass that returned in the last step did (else NoEnd)
    dropped,      \* the last step called syncList() and the guard returned
    createCalls,  \* history: local id -> remote documents created for it
    deleteCalls,  \* history: remote id -> remote delete calls issued for it
    imported,     \* history: remote id -> local notes created by import for it
    userDeleted,  \* history: <<remote id, active>> of the bound notes the user deleted
    rtDeleted,    \* history: remote ids whose realtime delete event was handled
    calc          \* the pure functions applied to drawn inputs

vars == <<local, nextId, remote, nextRid, now, isConnected, user, active, subs,
          isSyncing, pass, rt, fails, escaped, envOps, ended, dropped, createCalls,
          deleteCalls,
          imported, userDeleted, rtDeleted, calc>>

stores == <<local, nextId, remote, nextRid>>
session == <<isConnected, user, active, subs>>
history == <<createCalls, deleteCalls, imported, userDeleted, rtDeleted>>
faults == <<fails, escaped>>

RECURSIVE SortedSeq(_)
SortedSeq(S) ==
    IF S = {} THEN <<>>
    ELSE LET m == CHOOSE x \in S : \A y \in S : x <= y
         IN <<m>> \o SortedSeq(S \ {m})

Indices(s) == 1..Len(s)

\* ------------------------------------------------- the local store (Tauri)
\* get_notes: the list the sidebar and syncList read (interface Note).
get_notes ==
    LET ids == SortedSeq(DOMAIN local)
    IN [k \in Indices(ids) |->
          [id |-> ids[k], title |-> local[ids[k]].title,
           updated_at |-> local[ids[k]].updated_at, pb_id |-> local[ids[k]].pb_id]]

\* create_note(title, content) -> id; the store stamps updated_at (t: the time).
create_note(store, id, title, content, t) ==
    [n \in DOMAIN store \cup {id} |->
        IF n = id
        THEN [title |-> title, content |-> content, updated_at |-> t, pb_id |-> None]
        ELSE store[n]]

\* update_note(id, title, content): stamps updated_at with the current time t.
update_note(store, id, title, content, t) ==
    IF id \in DOMAIN store
    THEN [store EXCEPT ![id] = [@ EXCEPT !.title = title, !.content = content,
                                         !.updated_at = t]]
    ELSE store

\* update_note_pb_id(id, pbId): record the remote id on the local note.
update_note_pb_id(store, id, pbId) ==
    IF id \in DOMAIN store
    THEN [store EXCEPT ![id] = [@ EXCEPT !.pb_id = pbId]]
    ELSE store

\* import_note_from_pb(pbId, title, content, updatedAt) -> id
import_note_from_pb(store, id, pbId, title, content, updatedAt) ==
    [n \in DOMAIN store \cup {id} |->
        IF n = id
        THEN [title |-> title, content |-> content, updated_at |-> updatedAt,
              pb_id |-> pbId]
        ELSE store[n]]

\* delete_note_by_pb_id(pbId): no note bound to pbId is left.
delete_note_by_pb_id(store, pbId) ==
    [n \in {m \in DOMAIN store : store[m].pb_id # pbId} |-> store[n]]

\* delete_note(id)
delete_note(store, id) ==
    [n \in DOMAIN store \ {id} |-> store[n]]

\* ------------------------------------------- the remote store (PocketBase)
\* pb.collection('notes').getFullList()
getFullList ==
    LET ids == SortedSeq(DOMAIN remote)
    IN [k \in Indices(ids) |->
          [id |-> ids[k], title |-> remote[ids[k]].title,
           content |-> remote[ids[k]].content, updated |-> remote[ids[k]].updated]]

\* pb.collection('notes').create(fields): the server stamps 'updated' (t).
pb_create(coll, id, title, content, t) ==
    [r \in DOMAIN coll \cup {id} |->
        IF r = id THEN [title |-> title, content |-> content, updated |-> t]
        ELSE coll[r]]

\* pb.collection('notes').update(id, fields)
pb_update(coll, id, title, content, t) ==
    [coll EXCEPT ![id] = [title |-> title, content |-> content, updated |-> t]]

\* pb.collection('notes').delete(id)
pb_delete(coll, id) ==
    [r \in DOMAIN coll \ {id} |-> coll[r]]

\* The realtime events a subscription receives.  The handler treats 'create'
\* and 'update' alike and ignores their record, so both are the event Change.
Change == [action |-> "change", id |-> None]
Deleted(r) == [action |-> "delete", id |-> r]

\* A change of the collection reaches the subscription only while it is held.
Publish(events, e) == IF active THEN events \cup {e} ELSE events

\* --------------------------------------------------------------- syncList
\* The locals of one activation of syncList.  failed, unbound, bound and
\* fetched are history: whether a call of this pass threw, the notes get_notes
\* returned without pb_id, the pb_ids it returned, whether both lists came.
IdlePass ==
    [pc |-> "idle", localNotes |-> <<>>, remoteNotes |-> <<>>, i |-> 0, j |-> 0,
     rawContent |-> Text(""), created |-> None, failed |-> FALSE, unbound |-> {},
     bound |-> {}, fetched |-> FALSE]

NoEnd ==
    [kind |-> "none", refreshed |-> FALSE, failed |-> FALSE, unbound |-> {},
     bound |-> {}, fetched |-> FALSE, localNotes |-> <<>>, remoteNotes |-> <<>>,
     doneL |-> 0, doneR |-> 0]

InFlight == {p \in Passes : pass[p].pc # "idle"}

\* Sidebar.tsx 494: if (isSyncingRef.current) return;
GuardNever(flag) == FALSE

Guard(flag) == flag

\* Sidebar.tsx 493-497: syncList up to its first await.  st is the state
\* [isSyncing, pass, dropped] the synchronous code runs on.
syncList(st) ==
    LET free == {p \in Passes : st.pass[p].pc = "idle"}
    IN IF Guard(st.isSyncing)
       THEN [st EXCEPT !.dropped = TRUE]
       ELSE IF free = {}
       THEN st
       ELSE LET p == CHOOSE q \in free : \A r \in free : q <= r
            IN [isSyncing |-> TRUE, dropped |-> st.dropped,
                pass |-> [st.pass EXCEPT ![p] = [IdlePass EXCEPT !.pc = "get_notes"]]]

\* Sidebar.tsx 608-611: the listener of 'onyx:refresh-notes'.
handleLocalTrigger(st) == syncList(st)

\* Sidebar.tsx 397-399: dispatchEvent runs the registered listeners
\* synchronously; the listener is registered while the effect is mounted.
notifyRefresh(st) == IF active THEN handleLocalTrigger(st) ELSE st

\* Sidebar.tsx 550: localNotes.find(n => n.pb_id === remote.id), as an index
\* (0: undefined).
LocalMatchNone(notes, rid) == 0

LocalMatch(notes, rid) ==
    LET hit == {k \in Indices(notes) : notes[k].pb_id = rid}
    IN IF hit = {} THEN 0 ELSE CHOOSE k \in hit : \A l \in hit : k <= l

\* new Date(updated_at + "Z").getTime(), new Date(updated).getTime():
\* the stores' timestamps are instants in ms.
ParseTime(t) == t

\* The pull loop passing over an unmatched document whose title a note of
\* the list carries.
RECURSIVE PullSkippingTwins(_, _)
PullSkippingTwins(ps, k) ==
    IF k > Len(ps.remoteNotes)
    THEN [ps EXCEPT !.j = k, !.pc = "end"]
    ELSE LET r == ps.remoteNotes[k]
             m == LocalMatch(ps.localNotes, r.id)
         IN IF m = 0
            THEN IF \E l \in Indices(ps.localNotes) : ps.localNotes[l].title = r.title
                 THEN PullSkippingTwins(ps, k + 1)
                 ELSE [ps EXCEPT !.j = k, !.pc = "import_note_from_pb"]
            ELSE IF Resolve(ParseTime(ps.localNotes[m].updated_at),
                            ParseTime(r.updated)) = "pull"
                 THEN [ps EXCEPT !.j = k, !.pc = "update_note"]
                 ELSE PullSkippingTwins(ps, k + 1)

\* Sidebar.tsx 549-580: the pull loop from index k up to its next await.
RECURSIVE PullFrom(_, _)
PullFrom(ps, k) ==
    IF k > Len(ps.remoteNotes)
    THEN [ps EXCEPT !.j = k, !.pc = "end"]
    ELSE LET r == ps.remoteNotes[k]
             m == LocalMatch(ps.localNotes, r.id)
         IN IF m = 0
            THEN [ps EXCEPT !.j = k, !.pc = "import_note_from_pb"]
            ELSE IF Resolve(ParseTime(ps.localNotes[m].updated_at),
                            ParseTime(r.updated)) = "pull"
                 THEN [ps EXCEPT !.j = k, !.pc = "update_note"]
                 ELSE PullFrom(ps, k + 1)

\* Sidebar.tsx 509-546: the push loop from index k up to its next await.
PushAll(ps, k) ==
    IF k > Len(ps.localNotes)
    THEN PullFrom([ps EXCEPT !.i = k], 1)
    ELSE [ps EXCEPT !.i = k, !.pc = "get_note_content"]

RECURSIVE PushFrom(_, _)
PushFrom(ps, k) ==
    IF k > Len(ps.localNotes)
    THEN PullFrom([ps EXCEPT !.i = k], 1)
    ELSE IF ps.localNotes[k].pb_id = None
         THEN [ps EXCEPT !.i = k, !.pc = "get_note_content"]
         ELSE PushFrom(ps, k + 1)

\* Sidebar.tsx 542-544: the catch of one note's upload; the loop goes on.
PushCatch(ps) == PushFrom([ps EXCEPT !.failed = TRUE], ps.i + 1)

\* Sidebar.tsx 584-585: the catch of the whole pass.
OuterCatch(ps) == [ps EXCEPT !.failed = TRUE, !.pc = "abort"]

Summary(ps, kind, refreshed) ==
    [kind |-> kind, refreshed |-> refreshed, failed |-> ps.failed,
     unbound |-> ps.unbound, bound |-> ps.bound, fetched |-> ps.fetched,
     localNotes |-> ps.localNotes, remoteNotes |-> ps.remoteNotes,
     doneL |-> IF ps.i > Len(ps.localNotes) THEN Len(ps.localNotes) ELSE ps.i,
     doneR |-> IF ps.j > Len(ps.remoteNotes) THEN Len(ps.remoteNotes) ELSE ps.j]

\* Sidebar.tsx 582-588: what follows the last await of a pass: refreshNotes()
\* when the loops are through, and the finally block in every case.
\* refreshNotes() called once the finally block has cleared the flag.
RefreshAfterFinally(st) == notifyRefresh([st EXCEPT !.isSyncing = FALSE])

RefreshAtEnd(st) == notifyRefresh(st)

\* syncList clearing the flag at its normal end only, not in a finally block.
SettleNoFinally(p, ps) ==
    IF ps.pc = "end"
    THEN LET st == RefreshAtEnd([isSyncing |-> isSyncing, dropped |-> FALSE,
                                 pass |-> [pass EXCEPT ![p] = ps]])
         IN /\ pass' = [st.pass EXCEPT ![p] = IdlePass]
            /\ isSyncing' = FALSE
            /\ dropped' = st.dropped
            /\ ended' = Summary(ps, "completed", TRUE)
    ELSE IF ps.pc = "abort"
    THEN /\ pass' = [pass EXCEPT ![p] = IdlePass]
         /\ isSyncing' = isSyncing
         /\ dropped' = FALSE
         /\ ended' = Summary(ps, "aborted", FALSE)
    ELSE /\ pass' = [pass EXCEPT ![p] = ps]
         /\ isSyncing' = isSyncing
         /\ dropped' = FALSE
         /\ ended' = NoEnd

Settle(p, ps) ==
    IF ps.pc = "end"
    THEN LET st == RefreshAtEnd([isSyncing |-> isSyncing, dropped |-> FALSE,
                                 pass |-> [pass EXCEPT ![p] = ps]])
         IN /\ pass' = [st.pass EXCEPT ![p] = IdlePass]
            /\ isSyncing' = FALSE
            /\ dropped' = st.dropped
            /\ ended' = Summary(ps, "completed", TRUE)
    ELSE IF ps.pc = "abort"
    THEN /\ pass' = [pass EXCEPT ![p] = IdlePass]
         /\ isSyncing' = FALSE
         /\ dropped' = FALSE
         /\ ended' = Summary(ps, "aborted", FALSE)
    ELSE /\ pass' = [pass EXCEPT ![p] = ps]
         /\ isSyncing' = isSyncing
         /\ dropped' = FALSE
         /\ ended' = NoEnd

\* Sidebar.tsx 542-544, 584-585, 599-601, 625-627, Editor.tsx 450-452,
\* 458-460: every awaited call of the handler `site` is inside a try (or has
\* a .catch) whose catch block only logs: the handlers a failure leaves by.
Rethrow(site) == {site}

Catch(site) == {}

\* An awaited call of the handler `site` returns (ok) or throws; MaxFails
\* bounds the throws.
Outcome(site, ok) ==
    /\ IF ok THEN fails' = fails ELSE fails < MaxFails /\ fails' = fails + 1
    /\ escaped' = IF ok THEN escaped ELSE escaped \cup Catch(site)

\* Sidebar.tsx 501: const localNotes = await invoke('get_notes')
GetNotes(p, ok) ==
    /\ pass[p].pc = "get_notes"
    /\ Outcome("syncList", ok)
    /\ Settle(p, IF ok
                 THEN [pass[p] EXCEPT
                         !.localNotes = get_notes,
                         !.unbound = {n \in DOMAIN local : local[n].pb_id = None},
                         !.bound = {local[n].pb_id : n \in DOMAIN local} \ {None},
                         !.pc = "getFullList"]
                 ELSE OuterCatch(pass[p]))
    /\ UNCHANGED <<stores, now, session, rt, envOps, history, calc>>

\* Sidebar.tsx 504: const remoteNotes = await pb.collection('notes').getFullList()
GetFullList(p, ok) ==
    /\ pass[p].pc = "getFullList"
    /\ Outcome("syncList", ok)
    /\ Settle(p, IF ok
                 THEN PushFrom([pass[p] EXCEPT !.remoteNotes = getFullList,
                                               !.fetched = TRUE], 1)
                 ELSE OuterCatch(pass[p]))
    /\ UNCHANGED <<stores, now, session, rt, envOps, history, calc>>

\* Sidebar.tsx 515-525: await invoke('get_note_content', {id}), then the
\* unwrapping.  For a note deleted since get_notes the command either throws
\* or yields no note (`?.content || ''`).
GetNoteContent(p, ok) ==
    LET ps == pass[p]
        id == ps.localNotes[ps.i].id
    IN /\ ps.pc = "get_note_content"
       /\ Outcome("syncList", ok)
       /\ Settle(p, IF ~ok
                    THEN PushCatch(ps)
                    ELSE [ps EXCEPT
                            !.rawContent =
                                IF id \in DOMAIN local
                                THEN UnwrapContent(OrEmpty(local[id].content))
                                ELSE Text(""),
                            !.pc = "create"])
       /\ UNCHANGED <<stores, now, session, rt, envOps, history, calc>>

\* Sidebar.tsx 528-532: await pb.collection('notes').create({title, content, owner})
Create(p, ok) ==
    LET ps == pass[p]
        note == ps.localNotes[ps.i]
    IN /\ ps.pc = "create"
       /\ Outcome("syncList", ok)
       /\ IF ok
          THEN /\ nextRid <= MaxRemote
               /\ remote' = pb_create(remote, nextRid, note.title, ps.rawContent, now)
               /\ nextRid' = nextRid + 1
               /\ rt' = Publish(rt, Change)
               /\ createCalls' = [createCalls EXCEPT ![note.id] = @ + 1]
               /\ Settle(p, [ps EXCEPT !.created = nextRid, !.pc = "update_note_pb_id"])
          ELSE /\ UNCHANGED <<remote, nextRid, rt, createCalls>>
               /\ Settle(p, PushCatch(ps))
       /\ UNCHANGED <<local, nextId, now, session, envOps, deleteCalls, imported,
                      userDeleted, rtDeleted, calc>>

\* update_note_pb_id failing after it has written the pb_id.
UpdateNotePbIdWritten(p, ok) ==
    LET ps == pass[p]
        note == ps.localNotes[ps.i]
    IN /\ ps.pc = "update_note_pb_id"
       /\ Outcome("syncList", ok)
       /\ local' = update_note_pb_id(local, note.id, ps.created)
       /\ IF ok
          THEN Settle(p, PushFrom([ps EXCEPT !.localNotes[ps.i].pb_id = ps.created],
                                  ps.i + 1))
          ELSE Settle(p, PushCatch(ps))
       /\ UNCHANGED <<nextId, remote, nextRid, now, session, rt, envOps, history, calc>>

\* Sidebar.tsx 535-541: await invoke('update_note_pb_id', {id, pbId}), then
\* note.pb_id = created.id on the in-memory list.
UpdateNotePbId(p, ok) ==
    LET ps == pass[p]
        note == ps.localNotes[ps.i]
    IN /\ ps.pc = "update_note_pb_id"
       /\ Outcome("syncList", ok)
       /\ IF ok
          THEN /\ local' = update_note_pb_id(local, note.id, ps.created)
               /\ Settle(p, PushFrom([ps EXCEPT !.localNotes[ps.i].pb_id = ps.created],
                                     ps.i + 1))
          ELSE /\ UNCHANGED local
               /\ Settle(p, PushCatch(ps))
       /\ UNCHANGED <<nextId, remote, nextRid, now, session, rt, envOps, history, calc>>

\* Sidebar.tsx 555-560: await invoke('import_note_from_pb', ...); a throw
\* reaches the catch of the whole pass.
ImportNote(p, ok) ==
    LET ps == pass[p]
        r == ps.remoteNotes[ps.j]
    IN /\ ps.pc = "import_note_from_pb"
       /\ Outcome("syncList", ok)
       /\ IF ok
          THEN /\ nextId <= MaxLocal
               /\ local' = import_note_from_pb(local, nextId, r.id, OrUntitled(r.title),
                                               OrEmpty(r.content), r.updated)
               /\ nextId' = nextId + 1
               /\ imported' = [imported EXCEPT ![r.id] = @ + 1]
               /\ Settle(p, PullFrom(ps, ps.j + 1))
          ELSE /\ UNCHANGED <<local, nextId, imported>>
               /\ Settle(p, OuterCatch(ps))
       /\ UNCHANGED <<remote, nextRid, now, session, rt, envOps, createCalls,
                      deleteCalls, userDeleted, rtDeleted, calc>>

\* The overwrite done as a replacement: the matched note is deleted and the
\* remote document imported as a new note.
UpdateNoteByReplacing(p, ok) ==
    LET ps == pass[p]
        r == ps.remoteNotes[ps.j]
        m == ps.localNotes[LocalMatch(ps.localNotes, r.id)]
    IN /\ ps.pc = "update_note"
       /\ Outcome("syncList", ok)
       /\ IF ok
          THEN /\ local' = [n \in DOMAIN local \ {m.id} |-> local[n]]
               /\ Settle(p, PullFrom(ps, ps.j + 1))
          ELSE /\ UNCHANGED local
               /\ Settle(p, OuterCatch(ps))
       /\ UNCHANGED <<nextId, remote, nextRid, now, session, rt, envOps, history, calc>>

\* The overwrite followed by an update of the remote document it came from.
UpdateNoteAndPushBack(p, ok) ==
    LET ps == pass[p]
        r == ps.remoteNotes[ps.j]
        m == ps.localNotes[LocalMatch(ps.localNotes, r.id)]
    IN /\ ps.pc = "update_note"
       /\ Outcome("syncList", ok)
       /\ IF ok
          THEN /\ local' = update_note(local, m.id, r.title, r.content, now)
               /\ remote' = IF r.id \in DOMAIN remote
                            THEN pb_update(remote, r.id, r.title, r.content, now)
                            ELSE remote
               /\ Settle(p, PullFrom(ps, ps.j + 1))
          ELSE /\ UNCHANGED <<local, remote>>
               /\ Settle(p, OuterCatch(ps))
       /\ UNCHANGED <<nextId, nextRid, now, session, rt, envOps, history, calc>>

\* Sidebar.tsx 572-576: await invoke('update_note', {id, title, content}); a
\* throw reaches the catch of the whole pass.
UpdateNote(p, ok) ==
    LET ps == pass[p]
        r == ps.remoteNotes[ps.j]
        m == ps.localNotes[LocalMatch(ps.localNotes, r.id)]
    IN /\ ps.pc = "update_note"
       /\ Outcome("syncList", ok)
       /\ IF ok
          THEN /\ local' = update_note(local, m.id, r.title, r.content, now)
               /\ Settle(p, PullFrom(ps, ps.j + 1))
          ELSE /\ UNCHANGED local
               /\ Settle(p, OuterCatch(ps))
       /\ UNCHANGED <<nextId, remote, nextRid, now, session, rt, envOps, history, calc>>

\* One resumption of an activation of syncList.
PassStep ==
    \E p \in Passes, ok \in BOOLEAN :
        \/ GetNotes(p, ok)
        \/ GetFullList(p, ok)
        \/ GetNoteContent(p, ok)
        \/ Create(p, ok)
        \/ UpdateNotePbId(p, ok)
        \/ ImportNote(p, ok)
        \/ UpdateNote(p, ok)

\* A user's or another device's operation; MaxEnvOps bounds their number.
EnvOp ==
    /\ envOps < MaxEnvOps
    /\ envOps' = envOps + 1

\* Time passes before an operation: dt ms, MaxTicks advances of TickMs at most.
Delays == {0, TickMs}

Clock(dt) ==
    /\ now + dt <= T0 + MaxTicks * TickMs
    /\ now' = now + dt

\* ------------------------------------------------- provider and the effect
Cur == [isSyncing |-> isSyncing, pass |-> pass, dropped |-> FALSE]

Run(st) == /\ isSyncing' = st.isSyncing
           /\ pass' = st.pass
           /\ dropped' = st.dropped

\* Sidebar.tsx 490-491, 591, 631-635: the effect of usePocketBaseSync runs
\* again when isConnected or user changes: the cleanup of the old run removes
\* the listeners and the subscription, the new run returns at once unless
\* isConnected && user, and otherwise calls syncList() and registers them.
\* Sidebar.tsx 615: pb.collection('notes').subscribe('*', handler) adds a
\* listener; 632: unsubscribe('*') removes every listener of the topic.
Subscribe(n) == n + 1
Unsubscribe(n) == 0

EffectNoCleanup(c, u, rerun) ==
    /\ isConnected' = c
    /\ user' = u
    /\ IF rerun /\ c /\ u
       THEN /\ active' = TRUE
            /\ subs' = Subscribe(subs)
            /\ rt' = rt
            /\ Run(syncList(Cur))
       ELSE /\ dropped' = FALSE
            /\ UNCHANGED <<active, subs, rt, isSyncing, pass>>

Effect(c, u, rerun) ==
    /\ isConnected' = c
    /\ user' = u
    /\ IF rerun
       THEN /\ active' = (c /\ u)
            /\ subs' = LET left == IF active THEN Unsubscribe(subs) ELSE subs
                       IN IF c /\ u THEN Subscribe(left) ELSE left
            /\ rt' = {}
            /\ Run(IF c /\ u THEN syncList(Cur) ELSE Cur)
       ELSE /\ dropped' = FALSE
            /\ UNCHANGED <<active, subs, rt, isSyncing, pass>>

\* Sidebar.tsx 411-420: one heartbeat probe and its result.  A probe that
\* finds the connection lost is an event of the environment.
checkConnection(ok) ==
    /\ IF isConnected /\ ~ok THEN EnvOp ELSE UNCHANGED envOps
    /\ Effect(ok, user, ok # isConnected)
    /\ ended' = NoEnd
    /\ UNCHANGED <<stores, now, faults, history, calc>>

\* Sidebar.tsx 431-451, 406-408: a login; authStore.onChange sets a new user
\* object, so the effect runs again even when a user was logged in.
login ==
    /\ EnvOp
    /\ Effect(isConnected, TRUE, TRUE)
    /\ ended' = NoEnd
    /\ UNCHANGED <<stores, now, faults, history, calc>>

\* Sidebar.tsx 453-455
logout ==
    /\ EnvOp
    /\ user
    /\ Effect(isConnected, FALSE, TRUE)
    /\ ended' = NoEnd
    /\ UNCHANGED <<stores, now, faults, history, calc>>

\* ------------------------------------------------------ realtime handlers
\* The handler applying the event's record to the local note bound to it.
RealtimeChangeApplied ==
    /\ active
    /\ Change \in rt
    /\ rt' = rt \ {Change}
    /\ \E n \in DOMAIN local :
          /\ local[n].pb_id \in DOMAIN remote
          /\ local' = update_note(local, n, remote[local[n].pb_id].title,
                                  remote[local[n].pb_id].content, now)
    /\ dropped' = FALSE
    /\ ended' = NoEnd
    /\ UNCHANGED <<nextId, remote, nextRid, isSyncing, pass, now, session, faults,
                   envOps, history, calc>>

\* Sidebar.tsx 615-618: a create or update event calls syncList().
RealtimeChange ==
    /\ active
    /\ Change \in rt
    /\ rt' = rt \ {Change}
    /\ Run(syncList(Cur))
    /\ ended' = NoEnd
    /\ UNCHANGED <<stores, now, session, faults, envOps, history, calc>>

\* Sidebar.tsx 619-628: a delete event deletes the local note bound to the
\* record and refreshes; a throw of the command is logged.
DeleteLocalById(store, recordId) == delete_note(store, recordId)

\* Sidebar.tsx 622: invoke('delete_note_by_pb_id', { pbId: e.record.id })
DeleteLocalOf(store, recordId) == delete_note_by_pb_id(store, recordId)

RealtimeDelete(r, ok) ==
    /\ active
    /\ Deleted(r) \in rt
    /\ rt' = rt \ {Deleted(r)}
    /\ Outcome("realtime", ok)
    /\ IF ok
       THEN /\ local' = DeleteLocalOf(local, r)
            /\ Run(notifyRefresh(Cur))
       ELSE /\ dropped' = FALSE
            /\ UNCHANGED <<local, isSyncing, pass>>
    /\ rtDeleted' = rtDeleted \cup {r}
    /\ ended' = NoEnd
    /\ UNCHANGED <<nextId, remote, nextRid, now, session, envOps, createCalls,
                   deleteCalls, imported, userDeleted, calc>>

\* Sidebar.tsx 594-604: the listener of 'onyx:deleted-note'.  No code of the
\* application dispatches this event (App.handleDeleteNote does not); the
\* listener runs for an event dispatched on window from elsewhere.
handleLocalDelete(pbId, ok) ==
    /\ active
    /\ EnvOp
    /\ Outcome("handleLocalDelete", ok)
    /\ IF pbId # None
       THEN /\ deleteCalls' = [deleteCalls EXCEPT ![pbId] = @ + 1]
            /\ IF ok /\ pbId \in DOMAIN remote
               THEN /\ remote' = pb_delete(remote, pbId)
                    /\ rt' = Publish(rt, Deleted(pbId))
               ELSE UNCHANGED <<remote, rt>>
       ELSE /\ ok
            /\ UNCHANGED <<deleteCalls, remote, rt>>
    /\ ended' = NoEnd
    /\ dropped' = FALSE
    /\ UNCHANGED <<local, nextId, nextRid, now, session, isSyncing, pass,
                   createCalls, imported, userDeleted, rtDeleted, calc>>

\* ------------------------------------------------------ the user's actions
EditTitles == {"e"}
EditTexts == {Text("y")}
ExtDocs == {[title |-> "", content |-> Text("")],
            [title |-> "r", content |-> Text("z")]}

\* Sidebar.tsx 29-40: New Page creates an empty local note.
handleNewPage(dt) ==
    /\ EnvOp
    /\ Clock(dt)
    /\ nextId <= MaxLocal
    /\ local' = create_note(local, nextId, "", Text(""), now')
    /\ nextId' = nextId + 1
    /\ ended' = NoEnd
    /\ dropped' = FALSE
    /\ UNCHANGED <<remote, nextRid, session, isSyncing, pass, rt, faults,
                   history, calc>>

\* handleDeleteNote deleting the bound remote document as well, whatever the
\* state of the session.
handleDeleteNotePropagating(id) ==
    /\ EnvOp
    /\ id \in DOMAIN local
    /\ local' = delete_note(local, id)
    /\ remote' = IF local[id].pb_id \in DOMAIN remote
                 THEN pb_delete(remote, local[id].pb_id)
                 ELSE remote
    /\ userDeleted' = IF local[id].pb_id # None
                      THEN userDeleted \cup {<<local[id].pb_id, active>>}
                      ELSE userDeleted
    /\ ended' = NoEnd
    /\ dropped' = FALSE
    /\ UNCHANGED <<nextId, nextRid, now, session, isSyncing, pass, rt,
                   faults, createCalls, deleteCalls, imported, rtDeleted, calc>>

\* App.handleDeleteNote (src/unnamed/part_001 161-173): delete_note and a
\* re-fetch of the list; nothing is sent to the sync engine.
handleDeleteNote(id) ==
    /\ EnvOp
    /\ id \in DOMAIN local
    /\ local' = delete_note(local, id)
    /\ userDeleted' = IF local[id].pb_id # None
                      THEN userDeleted \cup {<<local[id].pb_id, active>>}
                      ELSE userDeleted
    /\ ended' = NoEnd
    /\ dropped' = FALSE
    /\ UNCHANGED <<nextId, remote, nextRid, now, session, isSyncing, pass, rt,
                   faults, createCalls, deleteCalls, imported, rtDeleted, calc>>

\* saveToDatabase with the cloud save awaited before the local save: a remote
\* update that does not return leaves the local note as it was.
saveToDatabaseCloudFirst(id, titleVal, contentVal, ok, dt) ==
    /\ EnvOp
    /\ Clock(dt)
    /\ id \in DOMAIN local
    /\ Outcome("saveToDatabase", ok)
    /\ LET pbId == local[id].pb_id
       IN IF user /\ isConnected /\ pbId # None
          THEN /\ local' = IF ok
                           THEN update_note(local, id, titleVal, Wrap(contentVal), now')
                           ELSE local
               /\ IF ok /\ pbId \in DOMAIN remote
                  THEN /\ remote' = pb_update(remote, pbId, titleVal, contentVal, now')
                       /\ rt' = Publish(rt, Change)
                  ELSE UNCHANGED <<remote, rt>>
          ELSE /\ ok
               /\ local' = update_note(local, id, titleVal, Wrap(contentVal), now')
               /\ UNCHANGED <<remote, rt>>
    /\ ended' = NoEnd
    /\ dropped' = FALSE
    /\ UNCHANGED <<nextId, nextRid, session, isSyncing, pass, history, calc>>

\* Editor.tsx 402-461: the local save of the wrapped text, then, when a user
\* is logged in and connected and the note has a pb_id, the update of the
\* remote document with the raw text (not awaited, its failure logged).
saveToDatabase(id, titleVal, contentVal, ok, dt) ==
    /\ EnvOp
    /\ Clock(dt)
    /\ id \in DOMAIN local
    /\ local' = update_note(local, id, titleVal, Wrap(contentVal), now')
    /\ Outcome("saveToDatabase", ok)
    /\ LET pbId == local[id].pb_id
       IN IF user /\ isConnected /\ pbId # None
          THEN IF ok /\ pbId \in DOMAIN remote
               THEN /\ remote' = pb_update(remote, pbId, titleVal, contentVal, now')
                    /\ rt' = Publish(rt, Change)
               ELSE UNCHANGED <<remote, rt>>
          ELSE /\ ok
               /\ UNCHANGED <<remote, rt>>
    /\ ended' = NoEnd
    /\ dropped' = FALSE
    /\ UNCHANGED <<nextId, nextRid, session, isSyncing, pass, history, calc>>

\* ------------------------------------------------------------ other devices
ExtCreate(title, content, dt) ==
    /\ EnvOp
    /\ Clock(dt)
    /\ nextRid <= MaxRemote
    /\ remote' = pb_create(remote, nextRid, title, content, now')
    /\ nextRid' = nextRid + 1
    /\ rt' = Publish(rt, Change)
    /\ ended' = NoEnd
    /\ dropped' = FALSE
    /\ UNCHANGED <<local, nextId, session, isSyncing, pass, faults, history, calc>>

ExtUpdate(r, title, content, dt) ==
    /\ EnvOp
    /\ Clock(dt)
    /\ r \in DOMAIN remote
    /\ remote' = pb_update(remote, r, title, content, now')
    /\ rt' = Publish(rt, Change)
    /\ ended' = NoEnd
    /\ dropped' = FALSE
    /\ UNCHANGED <<local, nextId, nextRid, session, isSyncing, pass, faults,
                   history, calc>>

ExtDelete(r) ==
    /\ EnvOp
    /\ r \in DOMAIN remote
    /\ remote' = pb_delete(remote, r)
    /\ rt' = Publish(rt, Deleted(r))
    /\ ended' = NoEnd
    /\ dropped' = FALSE
    /\ UNCHANGED <<local, nextId, nextRid, now, session, isSyncing, pass, faults,
                   history, calc>>

\* ---------------------------------------------------------- initial states
NoCalc == [fn |-> "none"]

\* The stores as a start of the application may find them: up to two local
\* notes, unbound or bound to remote ids handed out earlier, and any of the
\* remote documents 1 and 2 (a bound document may be gone).
InitLocals ==
    {f \in UNION {[1..n -> [title : {"t"}, content : {Wrap(Text("x"))},
                            updated_at : {0}, pb_id : {None, 1, 2}]]
                  : n \in 0..2} :
        \A a, b \in DOMAIN f :
            a < b => /\ f[a].pb_id # None => f[b].pb_id > f[a].pb_id
                     /\ f[b].pb_id # None => f[a].pb_id # None}

InitRemotes ==
    UNION {[D -> [title : {"r"}, content : {Text("x")}, updated : {2000, 3000}]]
           : D \in SUBSET {1, 2}}

Init ==
    /\ local \in InitLocals
    /\ nextId = Cardinality(DOMAIN local) + 1
    /\ remote \in InitRemotes
    /\ nextRid = 3
    /\ now = T0
    /\ isConnected = FALSE
    /\ user = TRUE
    /\ active = FALSE
    /\ subs = 0
    /\ isSyncing = FALSE
    /\ pass = [p \in Passes |-> IdlePass]
    /\ rt = {}
    /\ fails = 0
    /\ escaped = {}
    /\ envOps = 0
    /\ ended = NoEnd
    /\ dropped = FALSE
    /\ createCalls = [n \in LocalIds |-> 0]
    /\ deleteCalls = [r \in RemoteIds |-> 0]
    /\ imported = [r \in RemoteIds |-> 0]
    /\ userDeleted = {}
    /\ rtDeleted = {}
    /\ calc = NoCalc

Next ==
    \/ PassStep
    \/ \E ok \in BOOLEAN : checkConnection(ok)
    \/ login
    \/ logout
    \/ RealtimeChange
    \/ \E r \in RemoteIds, ok \in BOOLEAN : RealtimeDelete(r, ok)
    \/ \E pbId \in RemoteIds \cup {None}, ok \in BOOLEAN : handleLocalDelete(pbId, ok)
    \/ \E dt \in Delays : handleNewPage(dt)
    \/ \E id \in LocalIds : handleDeleteNote(id)
    \/ \E id \in LocalIds, t \in EditTitles, c \in EditTexts, ok \in BOOLEAN,
          dt \in Delays : saveToDatabase(id, t, c, ok, dt)
    \/ \E d \in ExtDocs, dt \in Delays : ExtCreate(d.title, d.content, dt)
    \/ \E r \in RemoteIds, d \in ExtDocs, dt \in Delays :
          ExtUpdate(r, d.title, d.content, dt)
    \/ \E r \in RemoteIds : ExtDelete(r)

Spec == Init /\ [][Next]_vars

\* ------------------------------------------------ the conflict decision alone
MaxLocalGrid == 6      \* local timestamps 0, 500, .., 500 * MaxLocalGrid
MaxRemoteGrid == 16    \* remote timestamps 0, 500, .., 500 * MaxRemoteGrid

TimeGrid(n) == {500 * k : k \in 0..n} \cup {NaN}

\* Every variable of the engine at rest: nothing stored, no session.
Quiet ==
    /\ local = <<>>
    /\ nextId = 1
    /\ remote = <<>>
    /\ nextRid = 1
    /\ now = T0
    /\ isConnected = FALSE
    /\ user = FALSE
    /\ active = FALSE
    /\ subs = 0
    /\ isSyncing = FALSE
    /\ pass = [p \in Passes |-> IdlePass]
    /\ rt = {}
    /\ fails = 0
    /\ escaped = {}
    /\ envOps = 0
    /\ ended = NoEnd
    /\ dropped = FALSE
    /\ createCalls = [n \in LocalIds |-> 0]
    /\ deleteCalls = [r \in RemoteIds |-> 0]
    /\ imported = [r \in RemoteIds |-> 0]
    /\ userDeleted = {}
    /\ rtDeleted = {}

InitResolve ==
    /\ Quiet
    /\ calc \in [fn : {"resolve"}, localTime : TimeGrid(MaxLocalGrid),
                 remoteTime : TimeGrid(MaxRemoteGrid), result : {"?"}]

\* Sidebar.tsx 565-570 applied to the drawn pair of timestamps.
ApplyResolve ==
    /\ calc.fn = "resolve"
    /\ calc.result = "?"
    /\ calc' = [calc EXCEPT !.result = Resolve(ParseTime(calc.localTime),
                                               ParseTime(calc.remoteTime))]
    /\ UNCHANGED <<stores, now, session, isSyncing, pass, rt, faults, envOps, ended,
                   dropped, history>>

NextResolve == ApplyResolve

SpecResolve == InitResolve /\ [][NextResolve]_vars

\* ------------------------------------------- the way of a note's text alone
MaxWrap == 3           \* a text is wrapped in the block array 0..MaxWrap times

\* Texts: '', a plain text, the envelope of a locked note
\* (App.handleLockNote, JSON.stringify({iv, salt, data})), and a text that
\* starts with '[' and is not JSON; each as it is or inside block arrays.
Bases == {"", "hello", "env", "[bad"}
Contents == [wrap : 0..MaxWrap, base : Bases]
Titles == {"", "t"}

InitContent ==
    /\ Quiet
    /\ calc \in [fn : {"content"}, stage : {"local"}, title : Titles,
                 content : Contents, sentTitle : {""}, sentContent : {Text("")},
                 gotTitle : {""}, gotContent : {Text("")}]

\* Sidebar.tsx 515-532: what the push phase sends for a local note.
ApplyPush ==
    /\ calc.fn = "content"
    /\ calc.stage = "local"
    /\ calc' = [calc EXCEPT !.stage = "sent",
                            !.sentTitle = calc.title,
                            !.sentContent = UnwrapContent(OrEmpty(calc.content))]
    /\ UNCHANGED <<stores, now, session, isSyncing, pass, rt, faults, envOps, ended,
                   dropped, history>>

\* Sidebar.tsx 555-560: what the pull phase stores for the document on a
\* device that has no note bound to it.
ApplyImport ==
    /\ calc.fn = "content"
    /\ calc.stage = "sent"
    /\ calc' = [calc EXCEPT !.stage = "imported",
                            !.gotTitle = OrUntitled(calc.sentTitle),
                            !.gotContent = OrEmpty(calc.sentContent)]
    /\ UNCHANGED <<stores, now, session, isSyncing, pass, rt, faults, envOps, ended,
                   dropped, history>>

\* Sidebar.tsx 572-576: what the conflict phase stores for the document on a
\* device whose bound note is older.
ApplyOverwrite ==
    /\ calc.fn = "content"
    /\ calc.stage = "sent"
    /\ calc' = [calc EXCEPT !.stage = "overwritten",
                            !.gotTitle = calc.sentTitle,
                            !.gotContent = calc.sentContent]
    /\ UNCHANGED <<stores, now, session, isSyncing, pass, rt, faults, envOps, ended,
                   dropped, history>>

NextContent == ApplyPush \/ ApplyImport \/ ApplyOverwrite

SpecContent == InitContent /\ [][NextContent]_vars

\* ================================================================== claims
\* A step of an activation of syncList: an activation that was in flight
\* moved on (or returned).
IsPassStep == \E p \in Passes : pass[p].pc # "idle" /\ pass'[p] # pass[p]

IdsOf(notes) == {notes[k].id : k \in Indices(notes)}

\* C1: at most one activation of syncList is in flight in every state, and a
\* step in which a call of syncList() hit the guard starts no activation, so
\* the invocation that finds the flag set issues no call to either store.
C1_SingleFlight ==
    /\ [](Cardinality(InFlight) <= 1)
    /\ [][dropped' => {p \in Passes : pass'[p].pc # "idle"} \subseteq InFlight]_vars

\* A trigger was dropped while the earlier activation is still in flight.
C1_Witness == dropped /\ Cardinality(InFlight) = 1 /\ isSyncing

\* C2: as long as no call has failed, no local note has had more than one
\* remote document created for it, and when a pass without a failed call
\* returns, every note it found without pb_id (and that still exists) has one.
C2_PushOnce ==
    /\ fails = 0 => \A n \in LocalIds : createCalls[n] <= 1
    /\ (ended.kind = "completed" /\ ~ended.failed) =>
          \A n \in ended.unbound \cap DOMAIN local : local[n].pb_id # None

\* A later pass returned that found every note bound, one of them pushed
\* by an earlier pass, and still exactly one document was created for it.
C2_Witness ==
    /\ fails = 0
    /\ ended.kind = "completed"
    /\ ended.unbound = {}
    /\ \E n \in DOMAIN local : createCalls[n] = 1 /\ local[n].pb_id # None

\* C3: when a pass returns normally, every remote document it fetched has a
\* local note bound to it (unless that note was deleted since), no document
\* has two local notes, and no document is imported twice unless the user
\* deleted its local note in between.
C3_PullOnce ==
    /\ \A r \in RemoteIds :
          /\ Cardinality({n \in DOMAIN local : local[n].pb_id = r}) <= 1
          /\ (\A d \in userDeleted : d[1] # r) => imported[r] <= 1
    /\ ended.kind = "completed" =>
          \A r \in IdsOf(ended.remoteNotes) :
              \/ \E n \in DOMAIN local : local[n].pb_id = r
              \/ r \in rtDeleted
              \/ \E d \in userDeleted : d[1] = r

\* A pass returned that found a local note already bound to a remote
\* document an earlier pass had imported: it imported nothing more.
C3_Witness ==
    /\ ended.kind = "completed"
    /\ \E r \in IdsOf(ended.remoteNotes) \cap ended.bound :
          /\ imported[r] = 1
          /\ \E n \in DOMAIN local : local[n].pb_id = r

Pairs(e) ==
    {<<k, LocalMatch(e.localNotes, e.remoteNotes[k].id)>> :
        k \in {l \in Indices(e.remoteNotes) :
                  LocalMatch(e.localNotes, e.remoteNotes[l].id) # 0}}

Newer(l, r) == r.updated > l.updated_at + 2000

C6_FailureSkipsOneNote ==
    (ended.kind # "none" /\ ended.fetched) =>
        /\ ended.doneL = Len(ended.localNotes)
        /\ ended.doneR = Len(ended.remoteNotes)

\* C7: every activation of syncList that passed the guard has called
\* refreshNotes() when it returns.
C7_RefreshAfterEveryPass ==
    ended.kind # "none" => ended.refreshed

\* C8: for every note bound to a remote id that the user deleted while the
\* session was active, exactly one delete call for that id has been issued.
C8_DeletePropagated ==
    \A d \in userDeleted : d[2] => deleteCalls[d[1]] = 1

\* C9: no local note is bound to a remote id whose local note the user
\* deleted.
C9_NoResurrection ==
    \A d \in userDeleted : \A n \in DOMAIN local : local[n].pb_id # d[1]

\* C10: when a pass returns normally, no local note is left bound to a remote
\* id that was bound when the pass read the local list and absent from the
\* remote list the pass fetched.
C10_RemoteDeleteCaughtUp ==
    ended.kind = "completed" =>
        \A n \in DOMAIN local :
            ~(local[n].pb_id \in ended.bound \ IdsOf(ended.remoteNotes))

C12_OneToOne ==
    \A a, b \in DOMAIN local :
        (a # b /\ local[a].pb_id # None) => local[a].pb_id # local[b].pb_id

\* A pushed note and an imported note side by side, bound to different ids.
C12_Witness ==
    \E a, b \in DOMAIN local :
        /\ a # b
        /\ createCalls[a] = 1
        /\ local[a].pb_id # None
        /\ local[b].pb_id # None
        /\ imported[local[b].pb_id] = 1

\* C13: no step clears or changes the pb_id of a local note that has one; the
\* pb_id goes only when the note itself is deleted.
C13_BindingMonotonic ==
    [][\A n \in DOMAIN local :
          local[n].pb_id # None =>
              (n \in DOMAIN local' => local'[n].pb_id = local[n].pb_id)]_vars

\* A note that was bound at the start has been overwritten by a pull and is
\* still bound to the same document.
C13_Witness ==
    \E n \in DOMAIN local :
        /\ local[n].pb_id # None
        /\ createCalls[n] = 0
        /\ imported[local[n].pb_id] = 0
        /\ local[n].title = "r"
        /\ local[n].updated_at = now

\* C14: every document a pass creates carries the title and the flattened
\* content the pass read of the local note it is created for, every note a
\* pass imports
\* carries the title and content of the remote document, and every overwrite
\* of a local note by a pass writes the title and content of the remote
\* document; nothing else is substituted.
C14_NoFabrication ==
    [][\A p \in {q \in Passes : pass'[q] # pass[q]} :
          LET ps == pass[p]
          IN /\ (/\ ps.pc = "get_note_content"
                 /\ pass'[p].pc = "create"
                 /\ ps.localNotes[ps.i].id \in DOMAIN local) =>
                   pass'[p].rawContent =
                       UnwrapContent(local[ps.localNotes[ps.i].id].content)
             /\ (ps.pc = "create" /\ nextRid' # nextRid) =>
                   /\ remote'[nextRid].title = ps.localNotes[ps.i].title
                   /\ remote'[nextRid].content = ps.rawContent
             /\ (ps.pc = "import_note_from_pb" /\ nextId' # nextId) =>
                   /\ local'[nextId].title = ps.remoteNotes[ps.j].title
                   /\ local'[nextId].content = ps.remoteNotes[ps.j].content
             /\ (ps.pc = "update_note" /\ local' # local) =>
                   \A n \in DOMAIN local :
                       local'[n] # local[n] =>
                           /\ local'[n].title = ps.remoteNotes[ps.j].title
                           /\ local'[n].content = ps.remoteNotes[ps.j].content]_vars

\* The text of a drawn note has been sent, or sent and stored again.
Sent == calc.fn = "content" /\ calc.stage # "local"
Pulled == calc.fn = "content" /\ calc.stage \in {"imported", "overwritten"}

\* C15: a text inside a block array is sent as the inner text, any other
\* text is sent as it is, flattening what was sent changes nothing, and what
\* the pull stores is what was sent.
C15_Flattening ==
    /\ Sent =>
          /\ calc.content.wrap > 0 =>
                calc.sentContent = [wrap |-> calc.content.wrap - 1,
                                    base |-> calc.content.base]
          /\ calc.content.wrap = 0 => calc.sentContent = calc.content
          /\ UnwrapContent(calc.sentContent) = calc.sentContent
    /\ Pulled => calc.gotContent = calc.sentContent

\* C16: the envelope of a locked note is sent as it is, and what the pull or
\* the conflict phase stores for it is the same envelope.
C16_EnvelopeInert ==
    (calc.fn = "content" /\ calc.content = Text("env")) =>
        /\ Sent => calc.sentContent = Text("env")
        /\ Pulled => calc.gotContent = Text("env")

\* An envelope has been pushed and imported on another device.
C16_Witness ==
    /\ calc.fn = "content"
    /\ calc.stage = "imported"
    /\ calc.content = Text("env")
    /\ calc.gotContent = Text("env")

Started == \E p \in Passes : pass[p].pc = "idle" /\ pass'[p].pc # "idle"

\* C19: in every state the listeners and the subscription are held only
\* while connected and logged in, and no event waits for a handler otherwise;
\* and every step that starts a pass or handles a trigger (a call of
\* syncList() that the guard drops, a realtime delete event, a local-delete
\* event) ends connected and logged in.
C19_Gated ==
    /\ [](active => isConnected /\ user)
    /\ [](~(isConnected /\ user) => ~active /\ rt = {})
    /\ [][(Started \/ dropped' \/ rtDeleted' # rtDeleted \/ deleteCalls' # deleteCalls)
            => isConnected' /\ user' /\ active']_vars

\* The connection was lost while a pass was in flight; the pass has returned
\* normally and its refresh event found no listener: no pass started.
C19_Witness ==
    /\ ~isConnected
    /\ user
    /\ envOps = 1
    /\ ended.kind = "completed"
    /\ ~dropped
    /\ InFlight = {}

\* The calls of a pass that reach the remote store or write the local store.
SyncCalls == {"getFullList", "create", "update_note_pb_id", "import_note_from_pb",
              "update_note"}

\* C20: while the connected flag is false no pass goes on to a call of the
\* remote store or a write of the local store: a pass that was in flight
\* when the probe failed issues none after the call it was waiting for.
C20_Suspended ==
    [][~isConnected' =>
          \A p \in Passes : pass'[p] # pass[p] => pass'[p].pc \notin SyncCalls]_vars

\* C21: every step in which the connected flag turns true while a user is
\* logged in leaves the subscription held and a pass under way that reads
\* both stores from then on: one that has yet to fetch its lists.
C21_CatchUpOnReconnect ==
    [][(~isConnected /\ isConnected' /\ user') =>
          /\ active'
          /\ \E p \in Passes : pass'[p].pc \in {"get_notes", "getFullList"}]_vars

\* C22: in every state at most one listener is held on the collection's
\* change stream, exactly one while the session is active, and none (and no
\* event waiting for a handler) when the user is logged out or the
\* connection is lost.
C22_OneSubscription ==
    /\ subs <= 1
    /\ active <=> subs = 1
    /\ ~(isConnected /\ user) => subs = 0 /\ rt = {}

\* The user logged in again while the session was active: the effect ran
\* again, and one listener is held.
C22_Witness ==
    /\ envOps = 1
    /\ isConnected
    /\ user
    /\ active
    /\ subs = 1
    /\ InFlight # {}
    /\ dropped

\* C23: once the user has logged out, no heartbeat probe changes the
\* connected flag: every step taken with no user logged in leaves it as it
\* was.
C23_HeartbeatStopsAtLogout ==
    [][~user => isConnected' = isConnected]_vars

\* Sidebar.tsx 504, 526: the remote calls a pass awaits.
PendingRemote == {p \in Passes : pass[p].pc \in {"getFullList", "create"}}

\* C24: in every state where a pass waits for a remote call, each local
\* operation the budgets still allow can be taken at once, completes against
\* the local store and leaves the pass waiting where it was: a new page, the
\* deletion of any note, and the save of any note, also when the save's own
\* remote update never returns.
C24_LocalNeverBlocked ==
    (PendingRemote # {} /\ envOps < MaxEnvOps) =>
        /\ nextId <= MaxLocal =>
              ENABLED (/\ handleNewPage(0)
                       /\ pass' = pass
                       /\ nextId \in DOMAIN local')
        /\ \A id \in DOMAIN local :
              /\ ENABLED (/\ handleDeleteNote(id)
                          /\ pass' = pass
                          /\ id \notin DOMAIN local')
              /\ \A t \in EditTitles, c \in EditTexts :
                    /\ ENABLED (/\ saveToDatabase(id, t, c, TRUE, 0)
                                /\ pass' = pass
                                /\ local'[id].title = t
                                /\ local'[id].content = Wrap(c))
                    /\ (user /\ isConnected /\ local[id].pb_id # None
                           /\ fails < MaxFails) =>
                          ENABLED (/\ saveToDatabase(id, t, c, FALSE, 0)
                                   /\ pass' = pass
                                   /\ local'[id].title = t
                                   /\ local'[id].content = Wrap(c))

\* A pass waits for the remote list while a bound note has been saved
\* locally and the save's own remote update did not return.
C24_Witness ==
    /\ \E p \in Passes : pass[p].pc = "getFullList"
    /\ isConnected
    /\ user
    /\ fails = 1
    /\ envOps = 1
    /\ \E id \in DOMAIN local :
          /\ local[id].pb_id # None
          /\ local[id].title \in EditTitles
          /\ local[id].content \in {Wrap(c) : c \in EditTexts}
          /\ local[id].pb_id \in DOMAIN remote
          /\ remote[local[id].pb_id].title \notin EditTitles

\* C25: no step of a pass removes a local note or a remote document or
\* issues a remote delete: after the step every local note and every remote
\* document that was there is still there.
C25_PassNeverDeletes ==
    [][IsPassStep =>
         /\ DOMAIN local \subseteq DOMAIN local'
         /\ DOMAIN remote \subseteq DOMAIN remote'
         /\ deleteCalls' = deleteCalls]_vars

\* A pass ran to its end after creating a remote document, importing one and
\* overwriting a local note.
C25_Witness ==
    /\ ended.kind = "completed"
    /\ envOps = 0
    /\ \E n \in LocalIds : createCalls[n] > 0
    /\ \E r \in RemoteIds : imported[r] > 0
    /\ \E k \in Indices(ended.localNotes) :
          /\ ended.localNotes[k].pb_id # None
          /\ ended.localNotes[k].id \in DOMAIN local
          /\ local[ended.localNotes[k].id].updated_at # ended.localNotes[k].updated_at

\* A step in which a trigger arrived: a realtime event was handed to its
\* handler, the connection came up, or a user logged in.
TriggerArrived ==
    \/ rt' \subseteq rt /\ rt' # rt
    \/ ~isConnected /\ isConnected'
    \/ envOps' # envOps /\ user' /\ UNCHANGED stores

\* C26: nothing is queued for a dropped trigger.  No step of a pass, its
\* return included, starts another pass, and when a pass returns none is in
\* flight; a pass starts only in a step in which a trigger arrives.
C26_DroppedNotQueued ==
    [][/\ IsPassStep => ~Started
       /\ ended'.kind # "none" => \A p \in Passes : pass'[p].pc = "idle"
       /\ Started => TriggerArrived]_vars

\* A pass has returned during which another device created a document and
\* the realtime event of that creation was dropped at the guard: the event
\* is gone, the document is not in the pass's list, and no pass is in flight.
C26_Witness ==
    /\ ended.kind = "completed"
    /\ dropped
    /\ rt = {}
    /\ envOps = 1
    /\ active
    /\ \A n \in LocalIds : createCalls[n] = 0
    /\ \E r \in DOMAIN remote : \A k \in Indices(ended.remoteNotes) :
          ended.remoteNotes[k].id # r
    /\ InFlight = {}
    /\ ~isSyncing

\* A step in which the handler of a create or update event ran.
ChangeHandled ==
    /\ Change \in rt
    /\ Change \notin rt'
    /\ UNCHANGED <<session, envOps>>

DeleteHandled ==
    /\ \E r \in RemoteIds : Deleted(r) \in rt /\ Deleted(r) \notin rt'
    /\ UNCHANGED <<session, envOps>>

\* C28: a step in which a delete event is handled starts no pass.
C28_DeleteBypasses ==
    [][DeleteHandled => ~Started]_vars

\* The awaits of the push loop and of the pull loop of syncList.
PushCalls == {"get_note_content", "create", "update_note_pb_id"}
PullCalls == {"import_note_from_pb", "update_note"}

\* C29: in every state of a pass, a pass at a call of the push loop has not
\* begun the pull loop, works on a note its list holds without pb_id, and has
\* left every earlier note of the list bound (or has logged a failure); a
\* pass at a call of the pull loop is through the whole push loop; a note
\* pushed in this pass is bound in the list to a document that is not among
\* the fetched ones, and the document about to be imported is bound to no
\* note of the list, so the pushed note is neither imported nor pushed again.
C29_PushBeforePull ==
    \A p \in InFlight :
        LET ps == pass[p]
            pushed == {k \in Indices(ps.localNotes) :
                         /\ ps.localNotes[k].id \in ps.unbound
                         /\ ps.localNotes[k].pb_id # None}
        IN /\ ps.pc \in PushCalls =>
                 /\ ps.j = 0
                 /\ ps.i \in Indices(ps.localNotes)
                 /\ ps.localNotes[ps.i].pb_id = None
                 /\ \A k \in 1..(ps.i - 1) :
                       ps.localNotes[k].pb_id # None \/ ps.failed
           /\ ps.pc \in PullCalls =>
                 /\ ps.i = Len(ps.localNotes) + 1
                 /\ ps.j \in Indices(ps.remoteNotes)
                 /\ \A k \in Indices(ps.localNotes) :
                       ps.localNotes[k].pb_id # None \/ ps.failed
           /\ ps.pc = "import_note_from_pb" =>
                 \A k \in Indices(ps.localNotes) :
                     ps.localNotes[k].pb_id # ps.remoteNotes[ps.j].id
           /\ \A k \in pushed :
                 /\ ps.localNotes[k].pb_id \notin IdsOf(ps.remoteNotes)
                 /\ createCalls[ps.localNotes[k].id] >= 1
                 /\ ps.pc \in PushCalls => k < ps.i

\* A pass that pushed and bound a note is now importing a document in its
\* pull loop, no call of it having failed.
C29_Witness ==
    \E p \in InFlight :
        /\ pass[p].pc = "import_note_from_pb"
        /\ ~pass[p].failed
        /\ fails = 0
        /\ \E k \in Indices(pass[p].localNotes) :
              /\ pass[p].localNotes[k].id \in pass[p].unbound
              /\ pass[p].localNotes[k].pb_id # None
              /\ createCalls[pass[p].localNotes[k].id] = 1

\* C30: no step of a pass changes or removes a remote document that exists;
\* a step of a pass that adds one is the create call for the note the pass
\* is at in its push loop, a note that get_notes returned without pb_id and
\* that the pass has not bound since.
C30_NoRemoteOverwrite ==
    [][IsPassStep =>
         /\ \A r \in DOMAIN remote : r \in DOMAIN remote' /\ remote'[r] = remote[r]
         /\ \A r \in DOMAIN remote' \ DOMAIN remote :
               \E p \in Passes :
                   LET note == pass[p].localNotes[pass[p].i]
                   IN /\ pass[p].pc = "create"
                      /\ note.pb_id = None
                      /\ note.id \in pass[p].unbound
                      /\ createCalls'[note.id] = createCalls[note.id] + 1
                      /\ remote'[r].title = note.title]_vars

\* A pass has returned that created a document and that found a bound note
\* edited more than the tolerance after its remote document: the document
\* is as it was fetched.
C30_Witness ==
    /\ ended.kind = "completed"
    /\ ~ended.failed
    /\ \E n \in LocalIds : createCalls[n] > 0
    /\ \E k \in Indices(ended.remoteNotes) :
          LET r == ended.remoteNotes[k]
          IN /\ r.id \in DOMAIN remote
             /\ remote[r.id].title = r.title
             /\ remote[r.id].content = r.content
             /\ remote[r.id].updated = r.updated
             /\ \E n \in DOMAIN local :
                   /\ local[n].pb_id = r.id
                   /\ \E l \in Indices(ended.localNotes) :
                         /\ ended.localNotes[l].id = n
                         /\ ended.localNotes[l].updated_at = local[n].updated_at
                   /\ r.updated # NaN
                   /\ local[n].updated_at > r.updated + SkewMs

\* ------------------------------------- passes that keep being triggered
\* Sidebar.tsx 615-618: the change stream delivers a create or update event
\* (of a record whose change leaves the documents of this model as they are).
EventArrives ==
    /\ active
    /\ rt' = Publish(rt, Change)
    /\ ended' = NoEnd
    /\ dropped' = FALSE
    /\ UNCHANGED <<stores, now, session, isSyncing, pass, faults, envOps, history,
                   calc>>

\* At most one unbound note at the start, so that the remote ids and local
\* ids at hand suffice for every retry the failures can cause.
InitRetry ==
    /\ Init
    /\ Cardinality({n \in DOMAIN local : local[n].pb_id = None}) <= 1

NextRetry ==
    \/ PassStep
    \/ checkConnection(TRUE)
    \/ EventArrives
    \/ RealtimeChange

\* The session stays up and events keep arriving; MaxFails bounds the throws.
SpecRetry == InitRetry /\ [][NextRetry]_vars

\* Passes keep being triggered and their calls keep returning: again and
\* again a pass returns.
PassesKeepReturning == []<><<ended'.kind # "none">>_vars

Unbound(n) == n \in DOMAIN local /\ local[n].pb_id = None
Bound(n) == n \in DOMAIN local /\ local[n].pb_id # None

\* C31: when a pass returns, every note it read without pb_id and did not
\* bind (its upload failed at the content read, the create or the bind) is
\* still without pb_id in the local store; and in every behaviour in which
\* passes return again and again, every unbound note is bound in the end.
C31_RetriedUntilBound ==
    /\ [](ended.kind # "none" =>
            \A k \in Indices(ended.localNotes) :
                (ended.localNotes[k].pb_id = None /\ ended.localNotes[k].id \in DOMAIN local)
                    => local[ended.localNotes[k].id].pb_id = None)
    /\ PassesKeepReturning => \A n \in LocalIds : Unbound(n) ~> Bound(n)

\* A note whose bind failed after its document was created has been pushed
\* again by a later pass and is bound.
C31_Witness ==
    /\ fails = 1
    /\ \E n \in DOMAIN local : createCalls[n] = 2 /\ local[n].pb_id # None

\* A step in which the editor saved a note while a user was logged in and
\* connected: an operation of the user that keeps the set of local notes and
\* writes one of them, or in which a call of the save failed.
EditorSaved ==
    /\ user
    /\ isConnected
    /\ envOps' # envOps
    /\ DOMAIN local' = DOMAIN local
    /\ local' # local \/ (fails' # fails /\ deleteCalls' = deleteCalls)

C33_OrphanDuplicated ==
    (envOps = 0 /\ ended.kind = "completed" /\ ~ended.failed) =>
        \A n \in ended.unbound :
            createCalls[n] = 2 =>
                \E r1, r2 \in DOMAIN remote :
                    /\ r1 < r2
                    /\ local[n].pb_id = r2
                    /\ r2 \notin IdsOf(ended.remoteNotes)
                    /\ r1 \in IdsOf(ended.remoteNotes)
                    /\ remote[r1].title = local[n].title
                    /\ remote[r2].title = local[n].title
                    /\ imported[r1] = 1
                    /\ \E m \in DOMAIN local :
                          /\ m # n
                          /\ local[m].pb_id = r1
                          /\ createCalls[m] = 0

\* The bind of a created document failed; the next pass has returned
\* without a failure, having found the note unbound.
C33_Witness ==
    /\ envOps = 0
    /\ fails = 1
    /\ ended.kind = "completed"
    /\ ~ended.failed
    /\ \E n \in ended.unbound : createCalls[n] = 2 /\ local[n].pb_id # None

\* A pass that follows another: its list holds a note it read as bound and
\* that an earlier pass pushed.
FollowsAPass(ps) ==
    \E k \in Indices(ps.localNotes) :
        /\ ps.localNotes[k].id \notin ps.unbound
        /\ createCalls[ps.localNotes[k].id] >= 1

C35_FlagExact ==
    /\ isSyncing <=> InFlight # {}
    /\ ended.kind # "none" => ~isSyncing
    /\ (active /\ Change \in rt /\ ~isSyncing) => ENABLED (RealtimeChange /\ Started)

\* With no operation of the environment, an earlier pass pushed a note and
\* then failed in its pull loop, leaving a document unimported; the event of
\* its own creation has started the pass now at its first read.
C35_Witness ==
    /\ envOps = 0
    /\ fails = 1
    /\ isSyncing
    /\ \E p \in Passes : pass[p].pc = "get_notes"
    /\ \E n \in DOMAIN local : createCalls[n] = 1 /\ local[n].pb_id # None
    /\ \E r \in DOMAIN remote :
          /\ r < 3
          /\ imported[r] = 0
          /\ \A m \in DOMAIN local : local[m].pb_id # r

\* The passes a step starts.
StartedIn == {p \in Passes : pass[p].pc = "idle" /\ pass'[p].pc # "idle"}

MaxProbes == 5         \* health probes issued

\* Sidebar.tsx 403-429 at mount, nobody logged in: no probe issued yet.
\* calc holds the probes: how many were issued, those whose check() has not
\* returned, and the newest one that has returned with its outcome.
InitProbe ==
    /\ Quiet
    /\ calc = [fn |-> "probe", issued |-> 0, pending |-> {}, newestDone |-> 0,
               newestOutcome |-> FALSE]

\* Sidebar.tsx 422-423: checkConnection() is called at mount and by the
\* interval every 5 s, whether or not an earlier call is still waiting at 414.
IssueProbe ==
    /\ calc.fn = "probe"
    /\ calc.issued < MaxProbes
    /\ calc' = [calc EXCEPT !.issued = @ + 1, !.pending = @ \cup {calc.issued + 1}]
    /\ UNCHANGED <<stores, now, session, isSyncing, pass, rt, faults, envOps, ended,
                   dropped, history>>

\* Sidebar.tsx 414-419: the check() of probe k returns or throws, and
\* checkConnection sets the flag to its outcome.  Nothing in the code orders
\* the returns of the pending probes.
ProbeReturns(k, ok) ==
    /\ calc.fn = "probe"
    /\ k \in calc.pending
    /\ calc' = [calc EXCEPT !.pending = @ \ {k},
                            !.newestDone = IF k > @ THEN k ELSE @,
                            !.newestOutcome = IF k > calc.newestDone THEN ok ELSE @]
    /\ Effect(ok, user, ok # isConnected)
    /\ ended' = NoEnd
    /\ UNCHANGED <<stores, now, faults, envOps, history>>

NextProbe ==
    \/ IssueProbe
    \/ \E k \in 1..MaxProbes, ok \in BOOLEAN : ProbeReturns(k, ok)

SpecProbe == InitProbe /\ [][NextProbe]_vars

\* C37: once a probe has returned, the connected flag is the outcome of the
\* most recently issued probe among those that have returned.
C37_NewestProbeWins ==
    (calc.fn = "probe" /\ calc.newestDone # 0) => isConnected = calc.newestOutcome

\* C38: a remote delete call is issued only in a step of the local-delete
\* handler, taken while the session is active: no step of a pass and no
\* reconnect issues one.  A step in which the user deletes a bound note
\* while the session is not active leaves the remote store, the delete
\* calls, the waiting events and the passes as they were.  And when a pass
\* returns normally that fetched the document of such a note and read no
\* local note bound to it, the document has been imported.
C38_NoOfflineDeletePropagation ==
    /\ [][deleteCalls' # deleteCalls => active /\ envOps' # envOps /\ pass' = pass]_vars
    /\ [][(userDeleted' # userDeleted /\ ~active) =>
             /\ remote' = remote
             /\ deleteCalls' = deleteCalls
             /\ rt' = rt
             /\ pass' = pass]_vars
    /\ [](ended.kind = "completed" =>
            \A d \in userDeleted :
                (/\ ~d[2]
                 /\ d[1] \in IdsOf(ended.remoteNotes)
                 /\ d[1] \notin ended.bound) => imported[d[1]] >= 1)

\* A bound note was deleted while the session was not active; no delete
\* call was issued for its document, which is still there and which a pass
\* that has returned imported as a new note.
C38_Witness ==
    /\ ended.kind = "completed"
    /\ \E d \in userDeleted :
          /\ ~d[2]
          /\ deleteCalls[d[1]] = 0
          /\ d[1] \in DOMAIN remote
          /\ imported[d[1]] = 1
          /\ \E n \in DOMAIN local : local[n].pb_id = d[1]

\* C39: with no failed call, whenever no pass is in flight, no local note is
\* bound to a remote id whose realtime delete event has been handled.
C39_DeleteNotUndone ==
    (fails = 0 /\ InFlight = {}) =>
        \A r \in rtDeleted : \A n \in DOMAIN local : local[n].pb_id # r

\* C40: when a pass returns normally, no call having failed so far, with the
\* session connected, every pair of a local note and the document it is
\* bound to that the pass read as they are now (the note not written and the
\* document not changed since the pass read them) agrees: the document
\* carries the note's title and its flattened content.  Stated for the notes
\* that a pass pushed.
C40_Convergence ==
    (ended.kind = "completed" /\ fails = 0 /\ isConnected /\ user) =>
        \A k \in Indices(ended.localNotes), j \in Indices(ended.remoteNotes) :
            LET l == ended.localNotes[k]
                r == ended.remoteNotes[j]
            IN (/\ l.pb_id = r.id
                /\ createCalls[l.id] >= 1
                /\ l.id \in DOMAIN local
                /\ local[l.id].pb_id = r.id
                /\ local[l.id].updated_at = l.updated_at
                /\ local[l.id].title = l.title
                /\ r.id \in DOMAIN remote
                /\ remote[r.id].updated = r.updated)
               => /\ remote[r.id].title = local[l.id].title
                  /\ remote[r.id].content = UnwrapContent(OrEmpty(local[l.id].content))

====
